---------------------------- MODULE Spec2Model ----------------------------
(***************************************************************************)
(* Transaction lifecycle of the uns-cli write commands: BaseCommand.run,   *)
(* the command bodies (set-properties, properties update for unset and     *)
(* badges claim, delegate vote), the passphrase collector, the nonce       *)
(* resolver, the target resolver, the format checks and the confirmation   *)
(* tracker waitTransactionConfirmations.                                   *)
(*                                                                         *)
(* One command run is one behaviour (Spec; HeightsSpec when the chain can  *)
(* move between the two parallel reads of setupNetwork).  The tracker, the *)
(* target resolver, the format checks, the nonce resolver and the          *)
(* passphrase collector are also run on their own, with any arguments      *)
(* (WaitSpec, ResolveSpec, FormatSpec, NonceSpec, AskSpec), and so are     *)
(* the components below run taken together, withAction included           *)
(* (BelowRunSpec).  The ledger, the transaction builder and the            *)
(* interactive prompt are the environment: every answer they can give is   *)
(* drawn with \E at the step that awaits it, or fixed for the whole run in *)
(* the initial state (wallet, heights).                                    *)
(***************************************************************************)
EXTENDS Naturals, Integers, Sequences, FiniteSets

VARIABLES
    cmd,              \* the command class that runs, or the function called on its own
    pc,               \* position of the single thread of control
    flags,            \* parserResult.flags
    wait,             \* arguments of the current waitTransactionConfirmations frame
    queries,          \* every getTransaction call made so far, with its answer
    finalTransaction, \* value returned by waitTransactionConfirmations
    trace,            \* observable events of the run, in program order
    passphrases,      \* the passphrases collected so far
    nonce,            \* next wallet nonce resolved for the emitter, in decimal
    transactionStruct,\* the composed transaction
    sendResult,       \* answer of the ledger to the submission
    target,           \* argument of targetResolve
    lookup,           \* answer of the lookup awaited by targetResolve
    resolved,         \* value returned by targetResolve
    argument,         \* argument of a format check called on its own
    ledgerNonce,      \* answer of the ledger to the nonce query
    checkSecondPassphrase,
                      \* parameter of askForPassphrases
    wallet,           \* what the ledger answers to getWallet for the first passphrase's account
    heights,          \* heights of the chain at the two parallel reads of setupNetwork
    exit              \* how the run ended: exit status, error, printed result

vars == <<cmd, pc, flags, wait, queries, finalTransaction, trace,
          passphrases, nonce, transactionStruct, sendResult, target, lookup,
          resolved, argument, ledgerNonce, checkSecondPassphrase, wallet,
          heights, exit>>

-----------------------------------------------------------------------------
(* Bounds of the model *)

MaxAwait == 3
MaxConfirmations == 3
MaxObserved == 2

BlockTimes == {1, 2}

\* ids of the transactions a call of the tracker on its own is given
TransactionIds == {"tx", "tx2"}

-----------------------------------------------------------------------------
(* Ledger answers to getTransaction *)

\* getTransaction resolves to undefined while the transaction is not indexed
Undefined == [found |-> FALSE, confirmations |-> 0]

TransactionResponses ==
    {Undefined} \cup {[found |-> TRUE, confirmations |-> n] : n \in 0..MaxObserved}

\* transactionFromNetwork?.confirmations ? transactionFromNetwork.confirmations : 0
Confirmations(transactionFromNetwork) ==
    IF transactionFromNetwork.found /\ transactionFromNetwork.confirmations # 0
    THEN transactionFromNetwork.confirmations
    ELSE 0

NoDelegateId == [at |-> FALSE, length |-> 0]

NoFlags == [await |-> 0, confirmations |-> 0, unikid |-> 0, passphrase |-> 0,
            secondPassphrase |-> 0, properties |-> <<>>, network |-> "none",
            id |-> NoDelegateId, verbose |-> FALSE]

NoPassphrases == [first |-> 0, second |-> 0]

NoTransaction == [id |-> "none"]

NoOutput == [transaction |-> "none", confirmations |-> 0]

\* A string that may be undefined; a defined one is the sequence of its characters.
UndefinedString == [defined |-> FALSE, value |-> <<>>]

String(chars) == [defined |-> TRUE, value |-> chars]

\* targetResolve not called
NoTarget == <<>>

\* no lookup answered yet
NoLookup ==
    [lookup |-> "none", rejected |-> FALSE, defined |-> FALSE, error |-> "undefined",
     hasData |-> FALSE, unikid |-> UndefinedString, ownerAddress |-> UndefinedString,
     height |-> 0, hasTransactions |-> FALSE,
             isDelegate |-> FALSE]

\* let ownerAddress, unikid, chainmeta, transactions: all undefined
NoResolved ==
    [unikid |-> UndefinedString, ownerAddress |-> UndefinedString,
     height |-> 0, hasTransactions |-> FALSE]

\* no nonce query answered yet
NoLedgerNonce == -1

\* no next nonce resolved yet
NoNonce == <<>>

\* no submission answered yet
NoSendResult == [errors |-> FALSE, list |-> <<>>]

Running == [code |-> -1, error |-> "none", by |-> "none", output |-> NoOutput,
            cause |-> <<>>, stop |-> <<>>]

\* the chain does not move between the two parallel reads of setupNetwork
SameHeights == <<1, 1>>

\* the run does not fix what the ledger answers to getWallet
AnyWallet == "any"

NoWait == [blockTime |-> 0, transactionId |-> "none", numberOfRetry |-> 0,
           expectedConfirmations |-> 0, maxRetries |-> 0]

-----------------------------------------------------------------------------
(* waitTransactionConfirmations *)

ShouldRetry_IgnoresTarget(confirmations, expectedConfirmations, numberOfRetry) ==
    numberOfRetry > 0

ShouldRetry_OffByOneBudget(confirmations, expectedConfirmations, numberOfRetry) ==
    confirmations < expectedConfirmations /\ numberOfRetry >= 0

ShouldRetry_InclusiveTarget(confirmations, expectedConfirmations, numberOfRetry) ==
    confirmations <= expectedConfirmations /\ numberOfRetry > 0

\* if (confirmations < expectedConfirmations && numberOfRetry > 0)
ShouldRetry(confirmations, expectedConfirmations, numberOfRetry) ==
    confirmations < expectedConfirmations /\ numberOfRetry > 0

ReturnedTransaction_OnlyWhenConfirmed(transactionFromNetwork, expectedConfirmations) ==
    IF Confirmations(transactionFromNetwork) < expectedConfirmations
    THEN Undefined
    ELSE transactionFromNetwork

\* return transactionFromNetwork;
ReturnedTransaction(transactionFromNetwork, expectedConfirmations) ==
    transactionFromNetwork

\* getTransaction(transactionId, blockTime * 1000): the timeout of one query, in ms
QueryTimeout(blockTime) == blockTime * 1000

RetryFrame_BacksOff(frame) ==
    [frame EXCEPT !.numberOfRetry = @ - 1, !.blockTime = @ * 2]

\* the arguments of the recursive call: blockTime, transactionId,
\* numberOfRetry - 1, expectedConfirmations
RetryFrame(frame) == [frame EXCEPT !.numberOfRetry = @ - 1]

\* where control goes when waitTransactionConfirmations returns to its caller
AfterWait(command) ==
    CASE command = "set-properties" -> "SetProperties.log"
      [] command = "properties:unset" -> "sendAndWait.return"
      [] command = "badges:claim" -> "sendAndWait.return"
      [] command = "delegate:vote" -> "sendAndWait.return"
      [] OTHER -> "returned"

\* One frame of the recursion: one getTransaction call and the decision made on
\* its answer.  The recursive call passes the same blockTime, transactionId and
\* expectedConfirmations and numberOfRetry - 1.
WaitPoll(response) ==
    /\ pc = "waitTransactionConfirmations"
    /\ LET transactionFromNetwork == response
           confirmations == Confirmations(transactionFromNetwork)
       IN /\ queries' = Append(queries,
                [transactionId |-> wait.transactionId,
                 timeout |-> QueryTimeout(wait.blockTime),
                 response |-> transactionFromNetwork])
          /\ trace' = Append(trace, "getTransaction")
          /\ IF ShouldRetry(confirmations, wait.expectedConfirmations, wait.numberOfRetry)
             THEN /\ wait' = RetryFrame(wait)
                  /\ UNCHANGED <<pc, finalTransaction>>
             ELSE /\ finalTransaction' =
                        ReturnedTransaction(transactionFromNetwork, wait.expectedConfirmations)
                  /\ pc' = AfterWait(cmd)
                  /\ UNCHANGED wait
    /\ UNCHANGED <<cmd, heights, wallet, flags, checkSecondPassphrase,
                   passphrases, ledgerNonce, nonce, transactionStruct,
                   sendResult, target, lookup, resolved, argument, exit>>

waitTransactionConfirmations == \E response \in TransactionResponses : WaitPoll(response)

-----------------------------------------------------------------------------
(* The tracker on its own: any retry budget, any target, any ledger answers *)

WaitInit ==
    /\ cmd = "direct"
    /\ pc = "waitTransactionConfirmations"
    /\ flags = NoFlags
    /\ \E blockTime \in BlockTimes, transactionId \in TransactionIds,
          numberOfRetry \in 0..MaxAwait,
          expectedConfirmations \in 0..MaxConfirmations :
            /\ wait = [blockTime |-> blockTime, transactionId |-> transactionId,
                       numberOfRetry |-> numberOfRetry,
                       expectedConfirmations |-> expectedConfirmations,
                       maxRetries |-> numberOfRetry]
            /\ transactionStruct = [id |-> transactionId]
    /\ queries = <<>>
    /\ finalTransaction = Undefined
    /\ trace = <<>>
    /\ passphrases = NoPassphrases
    /\ nonce = NoNonce
    /\ sendResult = NoSendResult
    /\ target = NoTarget
    /\ lookup = NoLookup
    /\ resolved = NoResolved
    /\ argument = UndefinedString
    /\ ledgerNonce = NoLedgerNonce
    /\ checkSecondPassphrase = TRUE
    /\ wallet = AnyWallet
    /\ heights = SameHeights
    /\ exit = Running

WaitNext == waitTransactionConfirmations

\* every awaited getTransaction call settles, so a pending poll is eventually taken
WaitSpec == WaitInit /\ [][WaitNext]_vars /\ WF_vars(WaitNext)

-----------------------------------------------------------------------------
(* Inputs of a command run *)

UnikIdLength == 64
PassphraseWords == 12
DefaultConfirmations == 1
MaxNonce == 0

Commands == {"set-properties", "properties:unset", "badges:claim", "delegate:vote"}

\* the commands built on WriteCommand
WriteCommands == {"properties:unset", "badges:claim", "delegate:vote"}

\* the commands built on PropertiesUpdateCommand
UpdateCommands == {"properties:unset", "badges:claim"}

\* A unikid is modelled by its length (0: the empty string).
UnikIds == {0, UnikIdLength - 1, UnikIdLength}

\* A passphrase is modelled by the number of pieces split(" ") cuts it into
\* (0: no passphrase, or the empty string, both falsy).
PassphraseInputs == {0, PassphraseWords - 1, PassphraseWords}

\* --properties arguments, each a string of characters
PropertiesInputs ==
    { << <<"k", ":", "v">> >>,
      << <<"k", ":">>, <<"j", ":", "v">> >>,
      << <<"k", ":", "v">>, <<"j">> >> }

\* args.id of delegate:vote: "@..." or a raw identifier, by its length
DelegateIds ==
    { [at |-> TRUE, length |-> 4],
      [at |-> FALSE, length |-> UnikIdLength],
      [at |-> FALSE, length |-> UnikIdLength - 1] }

\* UTILS.getNetworksList() outside dev mode; "dalinet" is then a disabled network
NetworksList == {"livenet", "sandbox", "local"}

NetworkInputs == {"livenet", "dalinet"}

\* --await and --confirmations, taken among the naturals
AwaitInputs == 0..MaxAwait

ConfirmationsInputs == 0..MaxConfirmations

-----------------------------------------------------------------------------
(* Validation helpers of utils *)

checkUnikIdFormat_AtLeast(unikid) == unikid # 0 /\ unikid >= UnikIdLength

\* unikid && unikid.length === 64
checkUnikIdFormat(unikid) == unikid # 0 /\ unikid = UnikIdLength

checkPassphraseFormat_AnyWords(passphrase) == passphrase # 0

\* passphrase && passphrase.split(" ").length === 12
checkPassphraseFormat(passphrase) == passphrase # 0 /\ passphrase = PassphraseWords

\* prop.indexOf(KEY_VALUE_SEPARATOR), 0-based, -1 when absent
IndexOfSeparator(prop) ==
    IF \E i \in 1..Len(prop) : prop[i] = ":"
    THEN (CHOOSE i \in 1..Len(prop) :
              prop[i] = ":" /\ \A j \in 1..(i - 1) : prop[j] # ":") - 1
    ELSE -1

\* parseProperties throws on the first property without a separator
parsePropertiesThrows(props) ==
    \E i \in 1..Len(props) : IndexOfSeparator(props[i]) = -1

FlagsConsistent_AllowsEqual(flagAwait, flagConfirmations) ==
    ~(flagAwait < flagConfirmations)

\* the commands' check: if (flags.await <= flags.confirmations) throw
FlagsConsistent(flagAwait, flagConfirmations) ==
    ~(flagAwait <= flagConfirmations)

-----------------------------------------------------------------------------
(* BaseCommand.run *)

\* what run's catch hands to this.stop: the message of the exception and, when
\* this.verbose (= flags.verbose) is set, its stack
CatchStops(verbose) ==
    IF verbose THEN <<"message", "stack">> ELSE <<"message">>

\* an error thrown inside do() reaches run's catch: stop(message),
\* stop(stack) if verbose, exit(1)
CatchCaused(error, cause) ==
    /\ pc' = "exited"
    /\ exit' = [code |-> 1, error |-> error, by |-> "run.catch", output |-> NoOutput,
                cause |-> cause, stop |-> CatchStops(flags.verbose)]

Catch(error) == CatchCaused(error, <<>>)

\* an error thrown outside run's try blocks leaves run uncaught
Uncaught(error, code) ==
    /\ pc' = "exited"
    /\ exit' = [code |-> code, error |-> error, by |-> "uncaught", output |-> NoOutput,
                cause |-> <<>>, stop |-> <<>>]

\* an error thrown by a function called on its own: nothing catches it
Throw(error) ==
    /\ pc' = "thrown"
    /\ exit' = [Running EXCEPT !.error = error, !.by = "throw"]

\* an error thrown in a step that is part of do() in a command run, and is
\* also called on its own
Fail(error) == IF cmd \in Commands THEN Catch(error) ELSE Throw(error)

\* do() returned: run prints the result, if any, and ends normally
Return(output) ==
    /\ pc' = "exited"
    /\ exit' = [code |-> 0, error |-> "none", by |-> "run", output |-> output,
                cause |-> <<>>, stop |-> <<>>]

CommandFlags(command) ==
    IF command = "set-properties"
    THEN { [await |-> a, confirmations |-> c, unikid |-> u, passphrase |-> p,
            secondPassphrase |-> 0, properties |-> props, network |-> n,
            id |-> NoDelegateId, verbose |-> v] :
              a \in AwaitInputs, c \in ConfirmationsInputs, u \in UnikIds,
              p \in PassphraseInputs, props \in PropertiesInputs, n \in NetworkInputs,
              v \in BOOLEAN }
    ELSE IF command \in UpdateCommands
    THEN { [await |-> a, confirmations |-> c, unikid |-> u, passphrase |-> p,
            secondPassphrase |-> q, properties |-> <<>>, network |-> n,
            id |-> NoDelegateId, verbose |-> v] :
              a \in AwaitInputs, c \in ConfirmationsInputs, u \in UnikIds,
              p \in PassphraseInputs, q \in PassphraseInputs, n \in NetworkInputs,
              v \in BOOLEAN }
    ELSE { [await |-> a, confirmations |-> c, unikid |-> 0, passphrase |-> p,
            secondPassphrase |-> q, properties |-> <<>>, network |-> n,
            id |-> d, verbose |-> v] :
              a \in AwaitInputs, c \in ConfirmationsInputs, d \in DelegateIds,
              p \in PassphraseInputs, q \in PassphraseInputs, n \in NetworkInputs,
              v \in BOOLEAN }

DoEntry(command) ==
    CASE command = "set-properties" -> "SetProperties.do"
      [] command \in UpdateCommands -> "PropertiesUpdate.do"
      [] OTHER -> "Vote.do"

\* this.parse throws the help exit: this.exit(0)
ParseHelp ==
    /\ pc = "run.parse"
    /\ pc' = "exited"
    /\ exit' = [code |-> 0, error |-> "none", by |-> "help", output |-> NoOutput,
                cause |-> <<>>, stop |-> <<>>]
    /\ UNCHANGED <<cmd, heights, wallet, flags, checkSecondPassphrase, wait,
                   queries, finalTransaction, trace, passphrases, ledgerNonce,
                   nonce, transactionStruct, sendResult, target, lookup,
                   resolved, argument>>

\* this.parse throws a parse error: stop(errorMsg), exit(2)
ParseError ==
    /\ pc = "run.parse"
    /\ pc' = "exited"
    /\ exit' = [code |-> 2, error |-> "ParseError", by |-> "run.parse", output |-> NoOutput,
                cause |-> <<>>, stop |-> <<"errorMsg">>]
    /\ UNCHANGED <<cmd, heights, wallet, flags, checkSecondPassphrase, wait,
                   queries, finalTransaction, trace, passphrases, ledgerNonce,
                   nonce, transactionStruct, sendResult, target, lookup,
                   resolved, argument>>

\* writeCommand.ts is not among the sources at hand: what WriteCommand adds
\* (the validation of its flags, sendAndWaitConfirmationsIfNeeded) follows the
\* specification, sections 4.4, 4.5 and 7.
\* The wait budget must be strictly greater than the target confirmation count.
WriteCommandFlagsValid(flagAwait, flagConfirmations) ==
    flagAwait > flagConfirmations

\* The flags of a WriteCommand come from WriteCommand.getWriteCommandFlags: their
\* validation rejects a wait budget that is not strictly greater than the target
\* before any network activity, and the failure ends the run as a parse failure.
WriteCommandFlagsRejected ==
    /\ pc = "run.parse"
    /\ cmd \in WriteCommands
    /\ \E f \in CommandFlags(cmd) :
          /\ ~WriteCommandFlagsValid(f.await, f.confirmations)
          /\ flags' = f
    /\ pc' = "exited"
    /\ exit' = [code |-> 2, error |-> "FlagsConsistency", by |-> "run.parse",
                output |-> NoOutput, cause |-> <<>>, stop |-> <<"errorMsg">>]
    /\ UNCHANGED <<cmd, heights, wallet, checkSecondPassphrase, wait, queries,
                   finalTransaction, trace, passphrases, ledgerNonce, nonce,
                   transactionStruct, sendResult, target, lookup, resolved,
                   argument>>

ParseOk ==
    /\ pc = "run.parse"
    /\ \E f \in CommandFlags(cmd) :
          /\ cmd \in WriteCommands => WriteCommandFlagsValid(f.await, f.confirmations)
          /\ flags' = f
    /\ pc' = "run.setupNetwork"
    /\ UNCHANGED <<cmd, heights, wallet, checkSecondPassphrase, wait, queries,
                   finalTransaction, trace, passphrases, ledgerNonce, nonce,
                   transactionStruct, sendResult, target, lookup, resolved,
                   argument, exit>>

\* setupNetwork: the network flag is not in the list (given through the env var)
SetupNetworkInvalid ==
    /\ pc = "run.setupNetwork"
    /\ flags.network \notin NetworksList
    /\ Uncaught("FlagInvalidOption", 2)
    /\ UNCHANGED <<cmd, heights, wallet, flags, checkSecondPassphrase, wait,
                   queries, finalTransaction, trace, passphrases, ledgerNonce,
                   nonce, transactionStruct, sendResult, target, lookup,
                   resolved, argument>>

\* setupNetwork: Promise.all of the crypto configuration and the current height
SetupNetworkOk ==
    /\ pc = "run.setupNetwork"
    /\ flags.network \in NetworksList
    /\ trace' = trace \o <<"getConfigurationForCrypto", "getCurrentHeight">>
    /\ pc' = DoEntry(cmd)
    /\ UNCHANGED <<cmd, heights, wallet, flags, checkSecondPassphrase, wait,
                   queries, finalTransaction, passphrases, ledgerNonce, nonce,
                   transactionStruct, sendResult, target, lookup, resolved,
                   argument, exit>>

\* one of the two fetches rejects: setupNetwork is awaited outside run's try
SetupNetworkFails ==
    /\ pc = "run.setupNetwork"
    /\ flags.network \in NetworksList
    /\ trace' = trace \o <<"getConfigurationForCrypto", "getCurrentHeight">>
    /\ Uncaught("NetworkError", 1)
    /\ UNCHANGED <<cmd, heights, wallet, flags, checkSecondPassphrase, wait,
                   queries, finalTransaction, passphrases, ledgerNonce, nonce,
                   transactionStruct, sendResult, target, lookup, resolved,
                   argument>>

-----------------------------------------------------------------------------
(* SetPropertiesCommand.do *)

\* Check flags consistency
SetPropertiesCheckFlags ==
    /\ pc = "SetProperties.do"
    /\ IF FlagsConsistent(flags.await, flags.confirmations)
       THEN pc' = "SetProperties.checkUnikIdFormat" /\ UNCHANGED exit
       ELSE Catch("FlagsConsistency")
    /\ UNCHANGED <<cmd, heights, wallet, flags, checkSecondPassphrase, wait,
                   queries, finalTransaction, trace, passphrases, ledgerNonce,
                   nonce, transactionStruct, sendResult, target, lookup,
                   resolved, argument>>

\* Check unikid format
SetPropertiesCheckUnikId ==
    /\ pc = "SetProperties.checkUnikIdFormat"
    /\ IF checkUnikIdFormat(flags.unikid)
       THEN pc' = "SetProperties.getPassphrase" /\ UNCHANGED exit
       ELSE Catch("UnikidFormat")
    /\ UNCHANGED <<cmd, heights, wallet, flags, checkSecondPassphrase, wait,
                   queries, finalTransaction, trace, passphrases, ledgerNonce,
                   nonce, transactionStruct, sendResult, target, lookup,
                   resolved, argument>>

\* Get passphrase: from the flag, else from the prompt
SetPropertiesGetPassphrase ==
    /\ pc = "SetProperties.getPassphrase"
    /\ IF flags.passphrase # 0
       THEN /\ passphrases' = [passphrases EXCEPT !.first = flags.passphrase]
            /\ UNCHANGED trace
       ELSE /\ \E entered \in PassphraseInputs :
                  passphrases' = [passphrases EXCEPT !.first = entered]
            /\ trace' = Append(trace, "getPassphraseFromUser")
    /\ pc' = "SetProperties.checkPassphraseFormat"
    /\ UNCHANGED <<cmd, heights, wallet, flags, checkSecondPassphrase, wait,
                   queries, finalTransaction, ledgerNonce, nonce,
                   transactionStruct, sendResult, target, lookup, resolved,
                   argument, exit>>

\* Check passphrase format
SetPropertiesCheckPassphrase ==
    /\ pc = "SetProperties.checkPassphraseFormat"
    /\ IF checkPassphraseFormat(passphrases.first)
       THEN /\ pc' = "SetProperties.parseProperties"
            /\ trace' = Append(trace, "passphrases")
            /\ UNCHANGED exit
       ELSE Catch("PassphraseFormat") /\ UNCHANGED trace
    /\ UNCHANGED <<cmd, heights, wallet, flags, checkSecondPassphrase, wait,
                   queries, finalTransaction, passphrases, ledgerNonce, nonce,
                   transactionStruct, sendResult, target, lookup, resolved,
                   argument>>

\* Parse properties
SetPropertiesParseProperties ==
    /\ pc = "SetProperties.parseProperties"
    /\ IF parsePropertiesThrows(flags.properties)
       THEN Catch("PropertyFormat")
       ELSE pc' = "SetProperties.createNFTUpdateTransaction" /\ UNCHANGED exit
    /\ UNCHANGED <<cmd, heights, wallet, flags, checkSecondPassphrase, wait,
                   queries, finalTransaction, trace, passphrases, ledgerNonce,
                   nonce, transactionStruct, sendResult, target, lookup,
                   resolved, argument>>

\* the builder's answers: a struct with an id, a struct without one, or a throw
ComposedIds == {"tx", "undefined"}

\* createNFTUpdateTransaction(client, unikid, properties, fee, version, passphrase):
\* no nonce is read, and the struct's id is not checked
SetPropertiesCompose ==
    /\ pc = "SetProperties.createNFTUpdateTransaction"
    /\ \/ /\ \E id \in ComposedIds : transactionStruct' = [id |-> id]
          /\ trace' = Append(trace, "compose")
          /\ pc' = "SetProperties.sendTransaction"
          /\ UNCHANGED exit
       \/ /\ Catch("ComposeError")
          /\ UNCHANGED <<transactionStruct, trace>>
    /\ UNCHANGED <<cmd, heights, wallet, flags, checkSecondPassphrase, wait,
                   queries, finalTransaction, passphrases, ledgerNonce, nonce,
                   sendResult, target, lookup, resolved, argument>>

\* the error codes a node reports at submission
LedgerErrors == {"ERR_LOW_FEE", "ERR_APPLY"}

\* sendResult of sendTransaction: no errors member when the node accepts the
\* transaction, a list of errors when it does not
SendResults ==
    {NoSendResult} \cup
    { [errors |-> TRUE, list |-> list] :
        list \in {<<>>, <<"ERR_LOW_FEE">>, <<"ERR_APPLY">>, <<"ERR_LOW_FEE", "ERR_APPLY">>} }

Rejected_Never(result) == FALSE

\* if (sendResult.errors): any errors member that is there, a list is truthy
Rejected(result) == result.errors

RECURSIVE JSONItems(_)
JSONItems(list) ==
    IF list = <<>> THEN <<>>
    ELSE <<"\"", list[1], "\"">> \o (IF Len(list) > 1 THEN <<",">> ELSE <<>>)
            \o JSONItems(Tail(list))

\* JSON.stringify of a list of strings: ["a","b"], as a sequence of tokens
JSONStringify(list) == <<"[">> \o JSONItems(list) \o <<"]">>

SetPropertiesSendRejected_Resubmits ==
    /\ pc' = "SetProperties.sendTransaction"
    /\ UNCHANGED exit

\* throw new Error(`Transaction not accepted. Caused by: ${JSON.stringify(sendResult.errors)}`)
SetPropertiesSendRejected ==
    CatchCaused("TransactionNotAccepted", JSONStringify(sendResult'.list))

\* this.api.sendTransaction, then the test of sendResult.errors, then the call of
\* waitTransactionConfirmations(getBlockTime(), id, flags.await, flags.confirmations)
SetPropertiesSend ==
    /\ pc = "SetProperties.sendTransaction"
    /\ trace' = Append(trace, "sendTransaction")
    /\ \E result \in SendResults :
          /\ sendResult' = result
          /\ IF Rejected(result)
             THEN /\ SetPropertiesSendRejected
                  /\ UNCHANGED wait
             ELSE /\ \E blockTime \in BlockTimes :
                        wait' = [blockTime |-> blockTime,
                                 transactionId |-> transactionStruct.id,
                                 numberOfRetry |-> flags.await,
                                 expectedConfirmations |-> flags.confirmations,
                                 maxRetries |-> flags.await]
                  /\ pc' = "waitTransactionConfirmations"
                  /\ UNCHANGED exit
    /\ UNCHANGED <<cmd, heights, wallet, flags, checkSecondPassphrase,
                   queries, finalTransaction, passphrases, ledgerNonce, nonce,
                   transactionStruct, target, lookup, resolved, argument>>

\* this.log(finalTransaction.id), this.log(finalTransaction.confirmations):
\* reading a property of undefined throws a TypeError
SetPropertiesLog ==
    /\ pc = "SetProperties.log"
    /\ IF finalTransaction.found
       THEN Return([transaction |-> wait.transactionId,
                    confirmations |-> finalTransaction.confirmations])
       ELSE Catch("TypeError")
    /\ UNCHANGED <<cmd, heights, wallet, flags, checkSecondPassphrase, wait,
                   queries, finalTransaction, trace, passphrases, ledgerNonce,
                   nonce, transactionStruct, sendResult, target, lookup,
                   resolved, argument>>

SetPropertiesDo ==
    \/ SetPropertiesCheckFlags
    \/ SetPropertiesCheckUnikId
    \/ SetPropertiesGetPassphrase
    \/ SetPropertiesCheckPassphrase
    \/ SetPropertiesParseProperties
    \/ SetPropertiesCompose
    \/ SetPropertiesSend
    \/ SetPropertiesLog

-----------------------------------------------------------------------------
(* BaseCommand.askForPassphrases(flags, checkSecondPassphrase = true) *)

\* where askForPassphrases returns to: a call on its own, or the next call of do()
AfterAskForPassphrases ==
    IF cmd = "askForPassphrases" THEN "returned" ELSE "getNextWalletNonceFromPassphrase"

\* passphrase = flags.passphrase, else getPassphraseFromUser()
AskFirstPassphrase ==
    /\ pc = "askForPassphrases"
    /\ IF flags.passphrase # 0
       THEN /\ passphrases' = [first |-> flags.passphrase,
                               second |-> flags.secondPassphrase]
            /\ UNCHANGED trace
       ELSE /\ \E entered \in PassphraseInputs :
                  passphrases' = [first |-> entered,
                                  second |-> flags.secondPassphrase]
            /\ trace' = Append(trace, "getPassphraseFromUser")
    /\ pc' = "askForPassphrases.checkPassphraseFormat"
    /\ UNCHANGED <<cmd, heights, wallet, flags, checkSecondPassphrase, wait,
                   queries, finalTransaction, ledgerNonce, nonce,
                   transactionStruct, sendResult, target, lookup, resolved,
                   argument, exit>>

\* checkPassphraseFormat(passphrase); if (checkSecondPassphrase) { ... };
\* return { first: passphrase, second: secondPassphrase }
CheckFirstPassphrase ==
    /\ pc = "askForPassphrases.checkPassphraseFormat"
    /\ IF ~checkPassphraseFormat(passphrases.first)
       THEN Fail("PassphraseFormat") /\ UNCHANGED trace
       ELSE IF ~checkSecondPassphrase
       THEN /\ pc' = AfterAskForPassphrases
            /\ trace' = Append(trace, "passphrases")
            /\ UNCHANGED exit
       ELSE /\ pc' = IF passphrases.second = 0
                     THEN "askForPassphrases.hasSecondPassphrase"
                     ELSE "askForPassphrases.checkSecondPassphrase"
            /\ UNCHANGED <<trace, exit>>
    /\ UNCHANGED <<cmd, heights, wallet, flags, checkSecondPassphrase, wait,
                   queries, finalTransaction, passphrases, ledgerNonce, nonce,
                   transactionStruct, sendResult, target, lookup, resolved,
                   argument>>

\* what getWallet can answer in applyWalletPredicate: a wallet that declares a
\* secondPublicKey, a wallet that declares none, or a rejection
WalletAnswers == {"secondPublicKey", "noSecondPublicKey", "HttpNotFoundError", "error"}

\* the error getWallet rejected with
WalletError(answer) ==
    IF answer = "HttpNotFoundError" THEN "HttpNotFoundError" ELSE "NetworkError"

\* getWallet(recipientId): the answer the ledger holds for the account, any
\* answer in a run that does not fix it
GetWalletAnswers(answer) ==
    IF answer = AnyWallet THEN WalletAnswers ELSE {answer}

ApplyWalletPredicateThrows_Never(answer) == FALSE

\* applyWalletPredicate's catch: HttpNotFoundError gives false, any other error
\* is rethrown
ApplyWalletPredicateThrows(answer) == answer = "error"

hasSecondPassphrase_AnyWallet(answer) == answer # "HttpNotFoundError"

\* hasSecondPassphrase: applyWalletPredicate(address,
\* (wallet) => wallet && !!wallet.secondPublicKey), false when the wallet is
\* not found
hasSecondPassphrase(answer) == answer = "secondPublicKey"

\* !secondPassphrase && (await this.hasSecondPassphrase(passphrase))
HasSecondPassphrase ==
    /\ pc = "askForPassphrases.hasSecondPassphrase"
    /\ trace' = Append(trace, "getWallet")
    /\ \E answer \in GetWalletAnswers(wallet) :
          IF ApplyWalletPredicateThrows(answer)
          THEN Fail(WalletError(answer))
          ELSE /\ pc' = IF hasSecondPassphrase(answer)
                        THEN "askForPassphrases.getSecondPassphraseFromUser"
                        ELSE "askForPassphrases.checkSecondPassphrase"
               /\ UNCHANGED exit
    /\ UNCHANGED <<cmd, heights, wallet, flags, checkSecondPassphrase, wait,
                   queries, finalTransaction, passphrases, ledgerNonce, nonce,
                   transactionStruct, sendResult, target, lookup, resolved,
                   argument>>

\* secondPassphrase = await getSecondPassphraseFromUser()
AskSecondPassphrase ==
    /\ pc = "askForPassphrases.getSecondPassphraseFromUser"
    /\ \E entered \in PassphraseInputs :
          passphrases' = [passphrases EXCEPT !.second = entered]
    /\ trace' = Append(trace, "getSecondPassphraseFromUser")
    /\ pc' = "askForPassphrases.checkSecondPassphrase"
    /\ UNCHANGED <<cmd, heights, wallet, flags, checkSecondPassphrase, wait,
                   queries, finalTransaction, ledgerNonce, nonce,
                   transactionStruct, sendResult, target, lookup, resolved,
                   argument, exit>>

\* if (secondPassphrase) checkPassphraseFormat(secondPassphrase); return
CheckSecondPassphrase ==
    /\ pc = "askForPassphrases.checkSecondPassphrase"
    /\ IF passphrases.second # 0 /\ ~checkPassphraseFormat(passphrases.second)
       THEN Fail("PassphraseFormat") /\ UNCHANGED trace
       ELSE /\ pc' = AfterAskForPassphrases
            /\ trace' = Append(trace, "passphrases")
            /\ UNCHANGED exit
    /\ UNCHANGED <<cmd, heights, wallet, flags, checkSecondPassphrase, wait,
                   queries, finalTransaction, passphrases, ledgerNonce, nonce,
                   transactionStruct, sendResult, target, lookup, resolved,
                   argument>>

askForPassphrases ==
    \/ AskFirstPassphrase
    \/ CheckFirstPassphrase
    \/ HasSecondPassphrase
    \/ AskSecondPassphrase
    \/ CheckSecondPassphrase

-----------------------------------------------------------------------------
(* BaseCommand.getNextWalletNonceFromPassphrase *)

MaxLedgerNonce == 100

\* the current nonce of the wallet as getNonce reports it: in a command run one
\* of the first few, in a call of the resolver on its own any nonce up to
\* MaxLedgerNonce and nonces on either side of a power of two
LedgerNonces(command) ==
    IF command = "getNextWalletNonceFromPassphrase"
    THEN 0..MaxLedgerNonce
            \cup {255, 256, 65535, 65536, 16777215, 16777216, 2147483645, 2147483646}
    ELSE 0..MaxNonce

NextNonce_Wraps16(currentNonce) == (currentNonce + 1) % 65536

\* BigNumber.make(currentNonce).plus(1): arbitrary precision, no wrap-around
NextNonce(currentNonce) == currentNonce + 1

DecimalDigits == <<"0", "1", "2", "3", "4", "5", "6", "7", "8", "9">>

RECURSIVE ToString(_)
\* BigNumber.toString(): the decimal digits of a natural, most significant first
ToString(n) ==
    IF n < 10 THEN <<DecimalDigits[n + 1]>>
    ELSE ToString(n \div 10) \o <<DecimalDigits[(n % 10) + 1]>>

\* the call of the resolver is a step of do(), or the call checked on its own
NonceResolverAlone == cmd = "getNextWalletNonceFromPassphrase"

\* return BigNumber.make(await getNonce(wallet.address)).plus(1).toString();
\* a rejected query is rethrown
getNextWalletNonceFromPassphrase ==
    /\ pc = "getNextWalletNonceFromPassphrase"
    /\ trace' = Append(trace, "getNonce")
    /\ \/ /\ \E currentNonce \in LedgerNonces(cmd) :
                /\ ledgerNonce' = currentNonce
                /\ nonce' = ToString(NextNonce(currentNonce))
          /\ pc' = IF NonceResolverAlone THEN "returned" ELSE "createTransaction"
          /\ UNCHANGED exit
       \/ /\ Fail("NetworkError")
          /\ UNCHANGED <<nonce, ledgerNonce>>
    /\ UNCHANGED <<cmd, heights, wallet, flags, checkSecondPassphrase, wait,
                   queries, finalTransaction, passphrases, transactionStruct,
                   sendResult, target, lookup, resolved, argument>>

-----------------------------------------------------------------------------
(* Composition and the identifier check of PropertiesUpdateCommand.do and *)
(* AbstractDelegateVoteCreateCommand.do *)

\* createNFTUpdateTransaction(unikid, properties, fee, nonce, first, second) or
\* createVoteTransaction(votes, fee, nonce, first, second)
CreateTransaction ==
    /\ pc = "createTransaction"
    /\ \/ /\ \E id \in ComposedIds : transactionStruct' = [id |-> id]
          /\ trace' = Append(trace, "compose")
          /\ pc' = "checkTransactionId"
          /\ UNCHANGED exit
       \/ /\ Catch("ComposeError")
          /\ UNCHANGED <<transactionStruct, trace>>
    /\ UNCHANGED <<cmd, heights, wallet, flags, checkSecondPassphrase, wait,
                   queries, finalTransaction, passphrases, ledgerNonce, nonce,
                   sendResult, target, lookup, resolved, argument>>

\* if (!transactionStruct.id) throw new Error("Transaction id can't be undefined")
CheckTransactionId ==
    /\ pc = "checkTransactionId"
    /\ IF transactionStruct.id = "undefined"
       THEN Catch("TransactionIdUndefined")
       ELSE pc' = "sendAndWaitConfirmationsIfNeeded" /\ UNCHANGED exit
    /\ UNCHANGED <<cmd, heights, wallet, flags, checkSecondPassphrase, wait,
                   queries, finalTransaction, trace, passphrases, ledgerNonce,
                   nonce, transactionStruct, sendResult, target, lookup,
                   resolved, argument>>

-----------------------------------------------------------------------------
(* WriteCommand.sendAndWaitConfirmationsIfNeeded: submits once, fails with the *)
(* ledger's error list when the submission is rejected, then awaits the        *)
(* confirmations with the flags' budget and target (the flags' validation      *)
(* leaves await > confirmations >= 0, so there is always a budget to wait).   *)

SendTransaction ==
    /\ pc = "sendAndWaitConfirmationsIfNeeded"
    /\ trace' = Append(trace, "sendTransaction")
    /\ \E result \in SendResults :
          /\ sendResult' = result
          /\ IF result.errors
             THEN /\ CatchCaused("TransactionNotAccepted", JSONStringify(result.list))
                  /\ UNCHANGED wait
             ELSE /\ \E blockTime \in BlockTimes :
                        wait' = [blockTime |-> blockTime,
                                 transactionId |-> transactionStruct.id,
                                 numberOfRetry |-> flags.await,
                                 expectedConfirmations |-> flags.confirmations,
                                 maxRetries |-> flags.await]
                  /\ pc' = "waitTransactionConfirmations"
                  /\ UNCHANGED exit
    /\ UNCHANGED <<cmd, heights, wallet, flags, checkSecondPassphrase,
                   queries, finalTransaction, passphrases, ledgerNonce, nonce,
                   transactionStruct, target, lookup, resolved, argument>>

\* the tracker's result goes back to the command
SendAndWaitReturn ==
    /\ pc = "sendAndWait.return"
    /\ pc' = IF cmd = "delegate:vote" THEN "Vote.result" ELSE "PropertiesUpdate.result"
    /\ UNCHANGED <<cmd, heights, wallet, flags, checkSecondPassphrase, wait,
                   queries, finalTransaction, trace, passphrases, ledgerNonce,
                   nonce, transactionStruct, sendResult, target, lookup,
                   resolved, argument, exit>>

sendAndWaitConfirmationsIfNeeded == SendTransaction \/ SendAndWaitReturn

-----------------------------------------------------------------------------
(* PropertiesUpdateCommand.do (properties:unset, badges:claim) *)

\* checkUnikIdFormat(flags.unikid)
PropertiesUpdateCheckUnikId ==
    /\ pc = "PropertiesUpdate.do"
    /\ IF checkUnikIdFormat(flags.unikid)
       THEN pc' = "PropertiesUpdate.getProperties" /\ UNCHANGED exit
       ELSE Catch("UnikidFormat")
    /\ UNCHANGED <<cmd, heights, wallet, flags, checkSecondPassphrase, wait,
                   queries, finalTransaction, trace, passphrases, ledgerNonce,
                   nonce, transactionStruct, sendResult, target, lookup,
                   resolved, argument>>

PropertiesUpdateGetProperties_NonceFirst ==
    /\ pc = "PropertiesUpdate.getProperties"
    /\ pc' = "getNextWalletNonceFromPassphrase"
    /\ UNCHANGED <<cmd, heights, wallet, flags, checkSecondPassphrase, wait,
                   queries, finalTransaction, trace, passphrases, ledgerNonce,
                   nonce, transactionStruct, sendResult, target, lookup,
                   resolved, argument, exit>>

\* const properties = this.getProperties(flags), not awaited; askForPassphrases
\* is the next call of do.
\* PropertiesUnsetCommand.getProperties maps every key to null and never throws.
\* BadgesClaimCommand.getProperties is async and the table of badges is empty:
\* the call gives a promise rejected with "Unknown badge ...", which nothing
\* handles. The runtime either only warns of the unhandled rejection, and do
\* goes on, or ends the process with status 1 for it.
PropertiesUpdateGetProperties ==
    /\ pc = "PropertiesUpdate.getProperties"
    /\ IF cmd = "badges:claim"
       THEN /\ trace' = Append(trace, "getProperties.rejected")
            /\ \/ pc' = "askForPassphrases" /\ UNCHANGED exit
               \/ Uncaught("UnknownBadge", 1)
       ELSE /\ pc' = "askForPassphrases"
            /\ UNCHANGED <<trace, exit>>
    /\ UNCHANGED <<cmd, heights, wallet, flags, checkSecondPassphrase, wait,
                   queries, finalTransaction, passphrases, ledgerNonce, nonce,
                   transactionStruct, sendResult, target, lookup, resolved,
                   argument>>

\* return { id, transaction, confirmations: finalTransaction ? ... : 0 }
PropertiesUpdateResult ==
    /\ pc = "PropertiesUpdate.result"
    /\ Return([transaction |-> transactionStruct.id,
               confirmations |-> IF finalTransaction.found
                                 THEN finalTransaction.confirmations
                                 ELSE 0])
    /\ UNCHANGED <<cmd, heights, wallet, flags, checkSecondPassphrase, wait,
                   queries, finalTransaction, trace, passphrases, ledgerNonce,
                   nonce, transactionStruct, sendResult, target, lookup,
                   resolved, argument>>

PropertiesUpdateDo ==
    \/ PropertiesUpdateCheckUnikId
    \/ PropertiesUpdateGetProperties
    \/ PropertiesUpdateResult

-----------------------------------------------------------------------------
(* AbstractDelegateVoteCreateCommand.do (delegate:vote) *)

\* resolveDelegateWalletPublicKey, first half: "@..." goes to
\* getUniknameWalletAddress, anything else to checkUnikIdFormat and getUnikById
ResolveDelegateAddress ==
    /\ pc = "Vote.do"
    /\ IF flags.id.at
       THEN /\ trace' = Append(trace, "getUniknameWalletAddress")
            /\ \/ pc' = "Vote.getWallet" /\ UNCHANGED exit
               \/ Catch("ResolutionError")
       ELSE IF checkUnikIdFormat(flags.id.length)
            THEN /\ trace' = Append(trace, "getUnikById")
                 /\ \/ pc' = "Vote.getWallet" /\ UNCHANGED exit
                    \/ Catch("NetworkError")
            ELSE Catch("UnikidFormat") /\ UNCHANGED trace
    /\ UNCHANGED <<cmd, heights, wallet, flags, checkSecondPassphrase, wait,
                   queries, finalTransaction, passphrases, ledgerNonce, nonce,
                   transactionStruct, sendResult, target, lookup, resolved,
                   argument>>

DelegateWalletAnswers == {"delegate", "notDelegate", "undefined", "error"}

DelegateWalletError_IgnoresIsDelegate(answer) ==
    CASE answer = "undefined" -> "DelegateNotFound"
      [] answer = "error" -> "NetworkError"
      [] OTHER -> "none"

\* a rejection of getWallet is thrown as it is; if (!wallet) throw new
\* Error("Delegate not found"); if (!wallet.isDelegate) throw new Error("This
\* Unikname is not registered as delegate.")
DelegateWalletError(answer) ==
    CASE answer = "error" -> "NetworkError"
      [] answer = "undefined" -> "DelegateNotFound"
      [] answer = "notDelegate" -> "NotDelegate"
      [] OTHER -> "none"

\* resolveDelegateWalletPublicKey, second half: getWallet, "Delegate not found",
\* "This Unikname is not registered as delegate."
ResolveDelegateWallet ==
    /\ pc = "Vote.getWallet"
    /\ trace' = Append(trace, "getWallet")
    /\ \E answer \in DelegateWalletAnswers :
          /\ lookup' = [NoLookup EXCEPT !.lookup = "getWallet",
                                        !.rejected = (answer = "error"),
                                        !.defined = (answer \in {"delegate", "notDelegate"}),
                                        !.isDelegate = (answer = "delegate")]
          /\ IF DelegateWalletError(answer) = "none"
             THEN pc' = "askForPassphrases" /\ UNCHANGED exit
             ELSE Catch(DelegateWalletError(answer))
    /\ UNCHANGED <<cmd, heights, wallet, flags, checkSecondPassphrase, wait,
                   queries, finalTransaction, passphrases, ledgerNonce, nonce,
                   transactionStruct, sendResult, target, resolved, argument>>

\* if (!transactionFromNetwork) this.error("Transaction not found yet, ...");
\* return { data: { transaction, confirmations } }
VoteResult ==
    /\ pc = "Vote.result"
    /\ IF finalTransaction.found
       THEN Return([transaction |-> transactionStruct.id,
                    confirmations |-> finalTransaction.confirmations])
       ELSE Catch("TransactionNotFound")
    /\ UNCHANGED <<cmd, heights, wallet, flags, checkSecondPassphrase, wait,
                   queries, finalTransaction, trace, passphrases, ledgerNonce,
                   nonce, transactionStruct, sendResult, target, lookup,
                   resolved, argument>>

VoteDo ==
    \/ ResolveDelegateAddress
    \/ ResolveDelegateWallet
    \/ VoteResult

-----------------------------------------------------------------------------
(* One command run *)

Init ==
    /\ cmd \in Commands
    /\ pc = "run.parse"
    /\ flags = NoFlags
    /\ wait = NoWait
    /\ queries = <<>>
    /\ finalTransaction = Undefined
    /\ trace = <<>>
    /\ passphrases = NoPassphrases
    /\ nonce = NoNonce
    /\ transactionStruct = NoTransaction
    /\ sendResult = NoSendResult
    /\ target = NoTarget
    /\ lookup = NoLookup
    /\ resolved = NoResolved
    /\ argument = UndefinedString
    /\ ledgerNonce = NoLedgerNonce
    /\ checkSecondPassphrase = TRUE
    /\ wallet = AnyWallet
    /\ heights = SameHeights
    /\ exit = Running

Next ==
    \/ ParseHelp
    \/ ParseError
    \/ WriteCommandFlagsRejected
    \/ ParseOk
    \/ SetupNetworkInvalid
    \/ SetupNetworkOk
    \/ SetupNetworkFails
    \/ SetPropertiesDo
    \/ PropertiesUpdateDo
    \/ VoteDo
    \/ askForPassphrases
    \/ getNextWalletNonceFromPassphrase
    \/ CreateTransaction
    \/ CheckTransactionId
    \/ sendAndWaitConfirmationsIfNeeded
    \/ waitTransactionConfirmations

Spec == Init /\ [][Next]_vars

-----------------------------------------------------------------------------
(* BaseCommand.targetResolve, called on its own with any target *)

MaxHeight == 2

Repeat(char, n) == [i \in 1..n |-> char]

HexDigits ==
    {"0", "1", "2", "3", "4", "5", "6", "7", "8", "9", "a", "b", "c", "d", "e", "f"}

\* target strings: runs of one character around the length of an identifier,
\* an identifier with one character that is not a hexadecimal digit, names
\* behind "@"
TargetInputs ==
    { Repeat(char, n) : char \in {"a", "0", "z"},
                        n \in {0, UnikIdLength - 1, UnikIdLength, UnikIdLength + 1} }
    \cup { Repeat("a", UnikIdLength - 1) \o <<"z">> }
    \cup { <<"@">> \o Repeat("b", n) : n \in {0, 1, UnikIdLength - 1} }

\* isTokenId and isDid belong to a utils module that is not among the sources
\* at hand; they follow the specification, section 3: a raw token identifier
\* is a 64-character hexadecimal string,
isTokenId(t) ==
    /\ Len(t) = UnikIdLength
    /\ \A i \in 1..Len(t) : t[i] \in HexDigits

\* and a symbolic name is the prefixed form, starting with "@".
isDid(t) == Len(t) > 0 /\ t[1] = "@"

TargetResolvePath_NameLookupFirst(t) ==
    IF isDid(t) \/ isTokenId(t) THEN "resolveUnikName" ELSE "throw"

TargetResolvePath_NoFormatError(t) ==
    IF isTokenId(t) THEN "getUnikById" ELSE "resolveUnikName"

\* if (isTokenId(target)) ... else if (isDid(target)) ... else throw
TargetResolvePath(t) ==
    IF isTokenId(t) THEN "getUnikById"
    ELSE IF isDid(t) THEN "resolveUnikName"
    ELSE "throw"

\* the first statement of targetResolve: the lookup is chosen and awaited
TargetResolveClassify ==
    /\ pc = "targetResolve"
    /\ LET path == TargetResolvePath(target)
       IN IF path = "throw"
          THEN Throw("TargetFormat") /\ UNCHANGED trace
          ELSE /\ trace' = Append(trace, path)
               /\ pc' = "targetResolve." \o path
               /\ UNCHANGED exit
    /\ UNCHANGED <<cmd, heights, wallet, flags, checkSecondPassphrase, wait,
                   queries, finalTransaction, passphrases, ledgerNonce, nonce,
                   transactionStruct, sendResult, target, lookup, resolved,
                   argument>>

OwnerAddresses == {<<"D", "1">>, <<"D", "2">>}

\* unsClientWrapper.getUnikById: the unik's owner, chain meta and transactions,
\* or a rejection
UnikByIdAnswers ==
    { [NoLookup EXCEPT !.lookup = "getUnikById", !.rejected = TRUE] } \cup
    { [NoLookup EXCEPT !.lookup = "getUnikById", !.defined = TRUE, !.hasData = TRUE,
                       !.ownerAddress = String(owner), !.height = height,
                       !.hasTransactions = TRUE] :
        owner \in OwnerAddresses, height \in 1..MaxHeight }

\* unikid = target; ownerAddress = unikInfos.ownerId; chainmeta, transactions
TargetResolveUnikById ==
    /\ pc = "targetResolve.getUnikById"
    /\ \E unikInfos \in UnikByIdAnswers :
          /\ lookup' = unikInfos
          /\ IF unikInfos.rejected
             THEN Throw("NetworkError") /\ UNCHANGED resolved
             ELSE /\ resolved' = [unikid |-> String(target),
                                  ownerAddress |-> unikInfos.ownerAddress,
                                  height |-> unikInfos.height,
                                  hasTransactions |-> unikInfos.hasTransactions]
                  /\ pc' = "returned"
                  /\ UNCHANGED exit
    /\ UNCHANGED <<cmd, heights, wallet, flags, checkSecondPassphrase, wait,
                   queries, finalTransaction, trace, passphrases, ledgerNonce,
                   nonce, transactionStruct, sendResult, target, argument>>

\* resolveUnikName: a rejection, no response object, a response with its error
\* member set, a response with neither error nor data, a response with data
NameAnswers ==
    { [NoLookup EXCEPT !.lookup = "resolveUnikName", !.rejected = TRUE],
      [NoLookup EXCEPT !.lookup = "resolveUnikName"],
      [NoLookup EXCEPT !.lookup = "resolveUnikName", !.defined = TRUE,
                       !.error = "DidResolutionError"],
      [NoLookup EXCEPT !.lookup = "resolveUnikName", !.defined = TRUE] } \cup
    { [NoLookup EXCEPT !.lookup = "resolveUnikName", !.defined = TRUE, !.hasData = TRUE,
                       !.unikid = String(Repeat(char, UnikIdLength)),
                       !.ownerAddress = String(owner), !.height = height] :
        char \in {"a", "0"}, owner \in OwnerAddresses, height \in 1..MaxHeight }

NameLookupError_OnlyErrorMember(response) ==
    IF response.defined /\ response.error # "undefined" THEN response.error ELSE "none"

\* what the statements after the await throw: resolved.error on no response
\* object is a TypeError, a set error member is thrown as it is, and
\* resolved?.data.unikid on a response without data is a TypeError
NameLookupError(response) ==
    IF ~response.defined THEN "TypeError"
    ELSE IF response.error # "undefined" THEN response.error
    ELSE IF ~response.hasData THEN "TypeError"
    ELSE "none"

\* unikid = resolved?.data.unikid; ownerAddress = resolved?.data.ownerAddress;
\* chainmeta = resolved?.chainmeta; transactions stays undefined
TargetResolveName ==
    /\ pc = "targetResolve.resolveUnikName"
    /\ \E response \in NameAnswers :
          /\ lookup' = response
          /\ IF response.rejected
             THEN Throw("ResolutionError") /\ UNCHANGED resolved
             ELSE IF NameLookupError(response) # "none"
             THEN Throw(NameLookupError(response)) /\ UNCHANGED resolved
             ELSE /\ resolved' = [unikid |-> response.unikid,
                                  ownerAddress |-> response.ownerAddress,
                                  height |-> response.height,
                                  hasTransactions |-> FALSE]
                  /\ pc' = "returned"
                  /\ UNCHANGED exit
    /\ UNCHANGED <<cmd, heights, wallet, flags, checkSecondPassphrase, wait,
                   queries, finalTransaction, trace, passphrases, ledgerNonce,
                   nonce, transactionStruct, sendResult, target, argument>>

targetResolve ==
    \/ TargetResolveClassify
    \/ TargetResolveUnikById
    \/ TargetResolveName

ResolveInit ==
    /\ cmd = "targetResolve"
    /\ pc = "targetResolve"
    /\ \E network \in NetworksList : flags = [NoFlags EXCEPT !.network = network]
    /\ target \in TargetInputs
    /\ wait = NoWait
    /\ queries = <<>>
    /\ finalTransaction = Undefined
    /\ trace = <<>>
    /\ passphrases = NoPassphrases
    /\ nonce = NoNonce
    /\ transactionStruct = NoTransaction
    /\ sendResult = NoSendResult
    /\ lookup = NoLookup
    /\ resolved = NoResolved
    /\ argument = UndefinedString
    /\ ledgerNonce = NoLedgerNonce
    /\ checkSecondPassphrase = TRUE
    /\ wallet = AnyWallet
    /\ heights = SameHeights
    /\ exit = Running

ResolveNext == targetResolve

ResolveSpec == ResolveInit /\ [][ResolveNext]_vars

-----------------------------------------------------------------------------
(* The format checks of utils, called on their own with any string *)

MaxUnikIdExcess == 2

\* unikid arguments: no value at all, and every run of one character (a
\* hexadecimal digit or not) up to a little more than the length of an identifier
UnikIdArguments ==
    {UndefinedString} \cup
    { String(Repeat(char, n)) : char \in {"a", "z", "@", " "},
                                n \in 0..(UnikIdLength + MaxUnikIdExcess) }

\* what the model of checkUnikIdFormat is handed for a string: its length, 0
\* standing for undefined as for the empty string (both falsy)
StringLength(s) == IF s.defined THEN Len(s.value) ELSE 0

\* checkUnikIdFormat(unikid): returns, or throws
\* "Unikid parameter does not match expected format"
CheckUnikIdFormat ==
    /\ pc = "checkUnikIdFormat"
    /\ IF checkUnikIdFormat(StringLength(argument))
       THEN pc' = "returned" /\ UNCHANGED exit
       ELSE Throw("UnikidFormat")
    /\ UNCHANGED <<cmd, heights, wallet, flags, checkSecondPassphrase, wait,
                   queries, finalTransaction, trace, passphrases, ledgerNonce,
                   nonce, transactionStruct, sendResult, target, lookup,
                   resolved, argument>>

MaxExtraWords == 1

RECURSIVE Words(_, _)
\* n one-letter words with the separator between them
Words(n, separator) ==
    IF n = 0 THEN <<>>
    ELSE IF n = 1 THEN <<"w">>
    ELSE <<"w">> \o separator \o Words(n - 1, separator)

\* passphrase arguments: no value at all, and phrases of up to a little more
\* than 12 words, separated by one space, two spaces or a tab, with or without
\* a space before and after
PassphraseArguments ==
    {UndefinedString} \cup
    { String(lead \o Words(n, separator) \o trail) :
        n \in 0..(PassphraseWords + MaxExtraWords),
        separator \in {<<" ">>, <<" ", " ">>, <<"\t">>},
        lead \in {<<>>, <<" ">>},
        trail \in {<<>>, <<" ">>} }

RECURSIVE Split(_, _)
\* str.split(separator) for a separator of one character: the pieces between
\* two occurrences, empty pieces included
Split(chars, separator) ==
    IF \E i \in 1..Len(chars) : chars[i] = separator
    THEN LET first == CHOOSE i \in 1..Len(chars) :
                          /\ chars[i] = separator
                          /\ \A j \in 1..(i - 1) : chars[j] # separator
         IN <<SubSeq(chars, 1, first - 1)>>
                \o Split(SubSeq(chars, first + 1, Len(chars)), separator)
    ELSE <<chars>>

\* what the model of checkPassphraseFormat is handed for a string: the number
\* of pieces of split(" "), 0 standing for undefined as for the empty string
\* (both falsy)
SplitPieces(s) ==
    IF s.defined /\ s.value # <<>> THEN Len(Split(s.value, " ")) ELSE 0

\* checkPassphraseFormat(passphrase): returns, or throws "Wrong pass phrase format"
CheckPassphraseFormat ==
    /\ pc = "checkPassphraseFormat"
    /\ IF checkPassphraseFormat(SplitPieces(argument))
       THEN pc' = "returned" /\ UNCHANGED exit
       ELSE Throw("PassphraseFormat")
    /\ UNCHANGED <<cmd, heights, wallet, flags, checkSecondPassphrase, wait,
                   queries, finalTransaction, trace, passphrases, ledgerNonce,
                   nonce, transactionStruct, sendResult, target, lookup,
                   resolved, argument>>

FormatInit ==
    /\ cmd \in {"checkUnikIdFormat", "checkPassphraseFormat"}
    /\ pc = cmd
    /\ argument \in IF cmd = "checkUnikIdFormat"
                    THEN UnikIdArguments
                    ELSE PassphraseArguments
    /\ flags = NoFlags
    /\ wait = NoWait
    /\ queries = <<>>
    /\ finalTransaction = Undefined
    /\ trace = <<>>
    /\ passphrases = NoPassphrases
    /\ nonce = NoNonce
    /\ transactionStruct = NoTransaction
    /\ sendResult = NoSendResult
    /\ target = NoTarget
    /\ lookup = NoLookup
    /\ resolved = NoResolved
    /\ ledgerNonce = NoLedgerNonce
    /\ checkSecondPassphrase = TRUE
    /\ wallet = AnyWallet
    /\ heights = SameHeights
    /\ exit = Running

FormatNext == CheckUnikIdFormat \/ CheckPassphraseFormat

FormatSpec == FormatInit /\ [][FormatNext]_vars

-----------------------------------------------------------------------------
(* getNextWalletNonceFromPassphrase, called on its own with a valid passphrase *)

NonceInit ==
    /\ cmd = "getNextWalletNonceFromPassphrase"
    /\ pc = cmd
    /\ passphrases = [first |-> PassphraseWords, second |-> 0]
    /\ flags = NoFlags
    /\ wait = NoWait
    /\ queries = <<>>
    /\ finalTransaction = Undefined
    /\ trace = <<>>
    /\ nonce = NoNonce
    /\ transactionStruct = NoTransaction
    /\ sendResult = NoSendResult
    /\ target = NoTarget
    /\ lookup = NoLookup
    /\ resolved = NoResolved
    /\ argument = UndefinedString
    /\ ledgerNonce = NoLedgerNonce
    /\ checkSecondPassphrase = TRUE
    /\ wallet = AnyWallet
    /\ heights = SameHeights
    /\ exit = Running

NonceNext == getNextWalletNonceFromPassphrase

NonceSpec == NonceInit /\ [][NonceNext]_vars

-----------------------------------------------------------------------------
(* askForPassphrases, called on its own with any flags and either value of *)
(* checkSecondPassphrase                                                    *)

\* the --passphrase and --second-passphrase flags, by their number of pieces:
\* absent, one word, and phrases around 12 words
PassphraseFlags ==
    PassphraseInputs \cup {1, PassphraseWords + MaxExtraWords}

AskInit ==
    /\ cmd = "askForPassphrases"
    /\ pc = cmd
    /\ \E first \in PassphraseFlags, second \in PassphraseFlags :
          flags = [NoFlags EXCEPT !.passphrase = first, !.secondPassphrase = second]
    /\ checkSecondPassphrase \in BOOLEAN
    /\ passphrases = NoPassphrases
    /\ wait = NoWait
    /\ queries = <<>>
    /\ finalTransaction = Undefined
    /\ trace = <<>>
    /\ nonce = NoNonce
    /\ transactionStruct = NoTransaction
    /\ sendResult = NoSendResult
    /\ target = NoTarget
    /\ lookup = NoLookup
    /\ resolved = NoResolved
    /\ argument = UndefinedString
    /\ ledgerNonce = NoLedgerNonce
    /\ wallet \in WalletAnswers
    /\ heights = SameHeights
    /\ exit = Running

AskNext == askForPassphrases

AskSpec == AskInit /\ [][AskNext]_vars

-----------------------------------------------------------------------------
(* BaseCommand.withAction, called on its own with any callback *)

\* what the awaited callback does: it resolves to a value or rejects with an error
CallbackOutcomes == {"value", "NetworkError", "FormatError"}

\* the events of one withAction call: actionStart and actionStop act only when
\* this.verbose is set; a rejection of the callback is passed to debug before
\* it is thrown again, and the finally block runs on both paths
WithActionEvents(verbose, outcome) ==
    (IF verbose THEN <<"actionStart">> ELSE <<>>) \o
    <<"callback">> \o
    (IF outcome = "value" THEN <<>> ELSE <<"debug">>) \o
    (IF verbose THEN <<"actionStop">> ELSE <<>>)

\* catch (e) { this.debug(e); throw e; }
WithActionThrows(outcome) == outcome # "value"

\* try { return await callback(); } catch (e) { this.debug(e); throw e; }
\* finally { this.actionStop(); }
withAction ==
    /\ pc = "withAction"
    /\ \E outcome \in CallbackOutcomes :
          /\ lookup' = [NoLookup EXCEPT !.lookup = "callback",
                                        !.rejected = outcome # "value",
                                        !.error = IF outcome = "value"
                                                  THEN "undefined" ELSE outcome]
          /\ trace' = trace \o WithActionEvents(flags.verbose, outcome)
          /\ IF WithActionThrows(outcome)
             THEN Throw(outcome)
             ELSE pc' = "returned" /\ UNCHANGED exit
    /\ UNCHANGED <<cmd, heights, wallet, flags, checkSecondPassphrase, wait,
                   queries, finalTransaction, passphrases, ledgerNonce, nonce,
                   transactionStruct, sendResult, target, resolved, argument>>

WithActionInit ==
    /\ cmd = "withAction"
    /\ pc = cmd
    /\ \E verbose \in BOOLEAN : flags = [NoFlags EXCEPT !.verbose = verbose]
    /\ checkSecondPassphrase = TRUE
    /\ passphrases = NoPassphrases
    /\ wait = NoWait
    /\ queries = <<>>
    /\ finalTransaction = Undefined
    /\ trace = <<>>
    /\ nonce = NoNonce
    /\ transactionStruct = NoTransaction
    /\ sendResult = NoSendResult
    /\ target = NoTarget
    /\ lookup = NoLookup
    /\ resolved = NoResolved
    /\ argument = UndefinedString
    /\ ledgerNonce = NoLedgerNonce
    /\ wallet = AnyWallet
    /\ heights = SameHeights
    /\ exit = Running

-----------------------------------------------------------------------------
(* The components below BaseCommand.run, each called on its own: targetResolve, *)
(* askForPassphrases, getNextWalletNonceFromPassphrase, withAction            *)

BelowRunInit == ResolveInit \/ AskInit \/ NonceInit \/ WithActionInit

BelowRunNext == ResolveNext \/ AskNext \/ NonceNext \/ withAction

BelowRunSpec == BelowRunInit /\ [][BelowRunNext]_vars

-----------------------------------------------------------------------------
(* One command run on a chain that can forge a block between the two *)
(* parallel reads of setupNetwork                                    *)

\* checkDataConsistency(...heights) returns (TRUE) or throws "Unable to read
\* right now. Please retry." (FALSE): heights.every((v) => v === heights[0])
checkDataConsistency(heightsRead) ==
    \A i \in 1..Len(heightsRead) : heightsRead[i] = heightsRead[1]

\* the heights at which getConfigurationForCrypto and getCurrentHeight are
\* answered
HeightPairs == { <<configurationHeight, height>> :
                    configurationHeight \in 1..MaxHeight, height \in 1..MaxHeight }

HeightsInit ==
    /\ cmd \in Commands
    /\ pc = "run.parse"
    /\ flags = NoFlags
    /\ wait = NoWait
    /\ queries = <<>>
    /\ finalTransaction = Undefined
    /\ trace = <<>>
    /\ passphrases = NoPassphrases
    /\ nonce = NoNonce
    /\ transactionStruct = NoTransaction
    /\ sendResult = NoSendResult
    /\ target = NoTarget
    /\ lookup = NoLookup
    /\ resolved = NoResolved
    /\ argument = UndefinedString
    /\ ledgerNonce = NoLedgerNonce
    /\ checkSecondPassphrase = TRUE
    /\ wallet = AnyWallet
    /\ heights \in HeightPairs
    /\ exit = Running

HeightsSpec == HeightsInit /\ [][Next]_vars

-----------------------------------------------------------------------------
(* Properties of waitTransactionConfirmations, checked under WaitSpec *)

Last(seq) == seq[Len(seq)]

ObservedCounts == [i \in 1..Len(queries) |-> Confirmations(queries[i].response)]

\* the ledger answered every poll of the call with the same confirmation count
SameCountOnEveryPoll ==
    /\ Len(queries) > 0
    /\ \A i \in 1..Len(queries) : ObservedCounts[i] = ObservedCounts[1]

\* C1 as stated: with a confirmation count that never changes, the call makes
\* exactly maxRetries + 1 getTransaction calls, whatever the target, and returns
\* that count.
C1_ConstantCountUsesWholeBudget ==
    (pc = "returned" /\ SameCountOnEveryPoll) =>
        /\ Len(queries) = wait.maxRetries + 1
        /\ Confirmations(finalTransaction) = ObservedCounts[1]

\* C1 amended: with a confirmation count that never changes, the call makes
\* exactly maxRetries + 1 getTransaction calls when that count is below
\* targetConfirmations and exactly 1 call when it is not; in both cases it
\* returns that count.
C1_ConstantCountQueries ==
    (pc = "returned" /\ SameCountOnEveryPoll) =>
        /\ Len(queries) = IF ObservedCounts[1] < wait.expectedConfirmations
                          THEN wait.maxRetries + 1
                          ELSE 1
        /\ Confirmations(finalTransaction) = ObservedCounts[1]

C1_Witness ==
    /\ pc = "returned"
    /\ SameCountOnEveryPoll
    /\ wait.maxRetries = 3
    /\ wait.expectedConfirmations = 2
    /\ ObservedCounts = <<1, 1, 1, 1>>
    /\ Confirmations(finalTransaction) = 1

\* C2: polling stops at the first observation that reaches targetConfirmations:
\* an observation at or above the target is always the last query made, the call
\* has returned once it is made, and it is the value returned.
C2_StopsAtFirstConfirmedObservation ==
    /\ \A i \in 1..Len(queries) :
          ObservedCounts[i] >= wait.expectedConfirmations =>
              /\ i = Len(queries)
              /\ pc # "waitTransactionConfirmations"
              /\ finalTransaction = queries[i].response
    /\ pc = "waitTransactionConfirmations" =>
          \A i \in 1..Len(queries) : ObservedCounts[i] < wait.expectedConfirmations

C2_Witness ==
    /\ pc = "returned"
    /\ wait.expectedConfirmations = 2
    /\ wait.maxRetries = 3
    /\ ObservedCounts = <<0, 1, 2>>
    /\ finalTransaction = [found |-> TRUE, confirmations |-> 2]

C3_QueryBudget ==
    /\ Len(queries) <= wait.maxRetries + 1
    /\ pc = "returned" => Len(queries) >= 1
    /\ wait.numberOfRetry >= 0
    /\ pc = "waitTransactionConfirmations" =>
          wait.numberOfRetry = wait.maxRetries - Len(queries)

C3_RetryStep ==
    (pc = "waitTransactionConfirmations" /\ pc' = "waitTransactionConfirmations") =>
        /\ wait'.numberOfRetry = wait.numberOfRetry - 1
        /\ Len(queries') = Len(queries) + 1

\* C3: for every retry budget, target and sequence of ledger answers the call
\* terminates, having made between 1 and maxRetries + 1 getTransaction calls, and
\* each retry lowers the retry counter by exactly 1.
C3_TerminatesWithinBudget ==
    /\ []C3_QueryBudget
    /\ [][C3_RetryStep]_vars
    /\ <>(pc = "returned")

C3_Witness ==
    /\ pc = "returned"
    /\ wait.maxRetries = 3
    /\ Len(queries) = 4
    /\ \A i \in 1..Len(queries) : queries[i].response = Undefined

\* C4: when the last query of the budget still observes fewer than
\* targetConfirmations, the call has returned normally and its value is the
\* answer to that last query (undefined, counted as 0, if never indexed).
C4_BudgetExhaustedReturnsLastQuery ==
    (Len(queries) = wait.maxRetries + 1
        /\ Confirmations(Last(queries).response) < wait.expectedConfirmations) =>
            /\ pc = "returned"
            /\ wait.numberOfRetry = 0
            /\ finalTransaction = Last(queries).response

C4_Witness ==
    /\ pc = "returned"
    /\ wait.maxRetries = 2
    /\ Len(queries) = 3
    /\ wait.expectedConfirmations = 2
    /\ Last(queries).response = [found |-> TRUE, confirmations |-> 1]
    /\ finalTransaction = [found |-> TRUE, confirmations |-> 1]

-----------------------------------------------------------------------------
(* Properties of a command run, checked under Spec *)

Positions(event) == {i \in 1..Len(trace) : trace[i] = event}

Occurs(event) == Positions(event) # {}

\* the calls that reach the node or the name service
NetworkCalls ==
    {"getConfigurationForCrypto", "getCurrentHeight", "getWallet", "getNonce",
     "getUnikById", "getUniknameWalletAddress", "sendTransaction", "getTransaction"}

FlagsParsed == flags # NoFlags

\* the last query of the polling budget was made and still saw fewer
\* confirmations than the target (or no transaction at all)
BudgetExhaustedUnconfirmed ==
    /\ Len(queries) = wait.maxRetries + 1
    /\ Confirmations(Last(queries).response) < wait.expectedConfirmations

\* C5: a transaction accepted at submission but not found, or not fully
\* confirmed, when the polling budget is exhausted ends the command normally,
\* with the transaction id and the observed confirmation count (0 if never
\* found), never with an error.
C5_UnconfirmedEndsNormally ==
    (pc = "exited" /\ BudgetExhaustedUnconfirmed) =>
        /\ exit.code = 0
        /\ exit.error = "none"
        /\ exit.output = [transaction |-> transactionStruct.id,
                          confirmations |-> Confirmations(Last(queries).response)]

\* C6: with await <= confirmations the command fails with the flags consistency
\* error, and no network call of any kind is made in that run.
C6_FlagsRejectedBeforeAnyNetworkCall ==
    (FlagsParsed /\ flags.await <= flags.confirmations) =>
        /\ \A i \in 1..Len(trace) : trace[i] \notin NetworkCalls
        /\ pc = "exited" => exit.error = "FlagsConsistency"

C8_AwaitZeroReturnsImmediately ==
    (cmd = "set-properties" /\ FlagsParsed
        /\ flags.await = 0 /\ flags.confirmations = DefaultConfirmations) =>
            /\ exit.error # "FlagsConsistency"
            /\ ~Occurs("getTransaction")
            /\ (pc = "exited" /\ exit.code = 0) => Occurs("sendTransaction")

\* C9: a command run calls the submission endpoint at most once.
C9_SubmitsAtMostOnce == Cardinality(Positions("sendTransaction")) <= 1

C9_Witness ==
    /\ pc = "exited"
    /\ cmd = "set-properties"
    /\ Cardinality(Positions("sendTransaction")) = 1
    /\ Len(queries) = 4
    /\ BudgetExhaustedUnconfirmed

\* every occurrence of `later` has an occurrence of `earlier` before it, and no
\* occurrence of `earlier` comes after one of `later`
Ordered(earlier, later) ==
    /\ \A j \in Positions(later) : \E i \in Positions(earlier) : i < j
    /\ \A i \in Positions(earlier), j \in Positions(later) : i < j

-----------------------------------------------------------------------------
(* Failures before submission *)

\* the errors thrown by the steps of do() that precede the submission: format
\* checks, property parsing, passphrase collection and validation, the ledger
\* queries of the delegate and of the nonce, composition and the check of the
\* composed identifier
PreSubmissionErrors ==
    {"FlagsConsistency", "UnikidFormat", "PropertyFormat", "PassphraseFormat",
     "NetworkError", "ResolutionError", "NotDelegate", "DelegateNotFound",
     "ComposeError", "TransactionIdUndefined"}

\* a step that precedes the submission has failed in this run: it threw, or
\* property building gave a rejected promise
PreSubmissionStepFailed ==
    \/ pc = "exited" /\ exit.by = "run.catch" /\ exit.error \in PreSubmissionErrors
    \/ Occurs("getProperties.rejected")

\* C11: when a step before submission fails (format check, property building,
\* passphrase collection or validation, nonce query, composition), no
\* transaction is submitted and no confirmation is polled for in that run.
C11_FailedStepSkipsSubmission ==
    PreSubmissionStepFailed =>
        /\ ~Occurs("sendTransaction")
        /\ ~Occurs("getTransaction")
        /\ queries = <<>>

-----------------------------------------------------------------------------
(* Rejected submissions *)

\* the ledger answered the submission of this run with a non-empty error list
RejectedWithErrors ==
    /\ Occurs("sendTransaction")
    /\ sendResult.errors
    /\ sendResult.list # <<>>

\* C12: when the ledger answers a submission with a non-empty error list, the
\* command fails with the rejection error, which carries that list, never
\* polls for confirmations and never resubmits.
C12_RejectionFailsWithErrorList ==
    RejectedWithErrors =>
        /\ pc = "exited"
        /\ exit.code = 1
        /\ exit.error = "TransactionNotAccepted"
        /\ exit.cause = JSONStringify(sendResult.list)
        /\ \A e \in LedgerErrors :
              (\E i \in 1..Len(sendResult.list) : sendResult.list[i] = e)
                  <=> (\E j \in 1..Len(exit.cause) : exit.cause[j] = e)
        /\ ~Occurs("getTransaction")
        /\ queries = <<>>
        /\ Cardinality(Positions("sendTransaction")) = 1

C12_Witness ==
    /\ cmd = "set-properties"
    /\ pc = "exited"
    /\ sendResult = [errors |-> TRUE, list |-> <<"ERR_LOW_FEE", "ERR_APPLY">>]
    /\ exit.error = "TransactionNotAccepted"
    /\ exit.cause = <<"[", "\"", "ERR_LOW_FEE", "\"", ",", "\"", "ERR_APPLY", "\"", "]">>

-----------------------------------------------------------------------------
(* Composed transactions without an identifier *)

\* C13: in every command that composes a transaction, a composed transaction
\* without an identifier aborts the command with the internal error, which is
\* not the rejection error, before the transaction is submitted or polled for.
C13_MissingIdentifierAborts ==
    (Occurs("compose") /\ transactionStruct.id = "undefined") =>
        /\ ~Occurs("sendTransaction")
        /\ ~Occurs("getTransaction")
        /\ pc = "exited" =>
              /\ exit.code = 1
              /\ exit.error = "TransactionIdUndefined"
              /\ exit.error # "TransactionNotAccepted"

-----------------------------------------------------------------------------
(* Properties of targetResolve, checked under ResolveSpec *)

Lookups == Positions("getUnikById") \cup Positions("resolveUnikName")

\* the classifier has run: the lookup is awaited, or the call is over
Classified == pc # "targetResolve"

\* C14: a target classified as a token identifier is looked up with
\* getUnikById only, a target classified as a symbolic name with the name
\* resolution only, and a successful resolution has made exactly one lookup.
C14_MutuallyExclusiveLookups ==
    /\ (isTokenId(target) /\ Classified) => trace = <<"getUnikById">>
    /\ (~isTokenId(target) /\ isDid(target) /\ Classified) =>
            trace = <<"resolveUnikName">>
    /\ ~(Occurs("getUnikById") /\ Occurs("resolveUnikName"))
    /\ pc = "returned" => Cardinality(Lookups) = 1

C14_Witness ==
    /\ pc = "returned"
    /\ target = Repeat("0", UnikIdLength)
    /\ trace = <<"getUnikById">>
    /\ lookup.lookup = "getUnikById"
    /\ resolved.unikid = String(target)
    /\ resolved.hasTransactions

\* C15: a target that is neither a token identifier nor a symbolic name makes
\* targetResolve fail with the format error, and no ledger or name-resolution
\* query is made for it.
C15_UnrecognizedTargetIsFormatError ==
    (~isTokenId(target) /\ ~isDid(target)) =>
        /\ Lookups = {}
        /\ trace = <<>>
        /\ lookup = NoLookup
        /\ Classified => (pc = "thrown" /\ exit.error = "TargetFormat")

C15_Witness ==
    /\ pc = "thrown"
    /\ target = Repeat("a", UnikIdLength - 1) \o <<"z">>
    /\ exit.error = "TargetFormat"
    /\ trace = <<>>

\* the answer of the name resolution is not a success: the call was rejected,
\* there is no response object, its error member is set, or it has no data
UnsuccessfulNameLookup ==
    /\ lookup.lookup = "resolveUnikName"
    /\ \/ lookup.rejected
       \/ ~lookup.defined
       \/ lookup.error # "undefined"
       \/ ~lookup.hasData

-----------------------------------------------------------------------------
(* Properties of the format checks, checked under FormatSpec *)

\* the check called on its own is over
Checked == pc \in {"returned", "thrown"}

\* C17: checkUnikIdFormat raises the format error for every string whose
\* length is not 64, the empty string and no value included, and passes for
\* every string of length 64, whatever its characters.
C17_UnikIdLengthOnly ==
    (cmd = "checkUnikIdFormat" /\ Checked) =>
        IF argument.defined /\ Len(argument.value) = 64
        THEN pc = "returned" /\ exit.error = "none"
        ELSE pc = "thrown" /\ exit.error = "UnikidFormat"

C17_Witness ==
    /\ cmd = "checkUnikIdFormat"
    /\ pc = "returned"
    /\ Len(argument.value) = 64
    /\ \A i \in 1..64 : argument.value[i] = "z"

Whitespace == {" ", "\t", "\n"}

\* the number of whitespace-delimited tokens of a string
Tokens(chars) ==
    Cardinality({ i \in 1..Len(chars) :
                    /\ chars[i] \notin Whitespace
                    /\ (i = 1 \/ chars[i - 1] \in Whitespace) })

\* C18: checkPassphraseFormat raises the format error for every passphrase
\* that does not split into exactly 12 whitespace-delimited tokens, and passes
\* for every string that has exactly 12 such tokens.
C18_TwelveWhitespaceTokens ==
    (cmd = "checkPassphraseFormat" /\ Checked) =>
        IF argument.defined /\ Tokens(argument.value) = 12
        THEN pc = "returned" /\ exit.error = "none"
        ELSE pc = "thrown" /\ exit.error = "PassphraseFormat"

-----------------------------------------------------------------------------
(* Property of getNextWalletNonceFromPassphrase, checked under NonceSpec *)

RECURSIVE DecimalValue(_)
\* the natural a sequence of decimal digits writes
DecimalValue(digits) ==
    IF digits = <<>> THEN 0
    ELSE 10 * DecimalValue(SubSeq(digits, 1, Len(digits) - 1))
            + ((CHOOSE d \in 1..10 : DecimalDigits[d] = digits[Len(digits)]) - 1)

\* C19: getNextWalletNonceFromPassphrase returns exactly the current nonce
\* reported by the ledger plus one, for every current nonce >= 0, without
\* wrap-around or loss of precision, and makes exactly one nonce query.
C19_NextNonceIsCurrentPlusOne ==
    (NonceResolverAlone /\ pc = "returned") =>
        /\ ledgerNonce >= 0
        /\ DecimalValue(nonce) = ledgerNonce + 1
        /\ DecimalValue(nonce) > ledgerNonce
        /\ Len(nonce) > 1 => nonce[1] # "0"
        /\ Cardinality(Positions("getNonce")) = 1

C19_Witness ==
    /\ NonceResolverAlone
    /\ pc = "returned"
    /\ ledgerNonce = 65535
    /\ nonce = <<"6", "5", "5", "3", "6">>
    /\ trace = <<"getNonce">>

-----------------------------------------------------------------------------
(* Property of askForPassphrases, checked under AskSpec *)

\* C20: for every combination of the passphrase flags and both values of
\* checkSecondPassphrase, the passphrases returned by askForPassphrases have a
\* first secret of exactly 12 space-separated words and, when there is a
\* second secret, one of exactly 12 space-separated words; a secret of another
\* shape makes the call fail with the format error.
C20_ReturnedPassphrasesAreTwelveWords ==
    (cmd = "askForPassphrases" /\ pc = "returned") =>
        /\ passphrases.first = 12
        /\ passphrases.second # 0 => passphrases.second = 12

-----------------------------------------------------------------------------
(* Properties of askForPassphrases on a ledger whose answer to getWallet is *)
(* fixed, checked under AskSpec                                              *)

\* askForPassphrases returned its { first, second }
PassphrasesReturned == cmd = "askForPassphrases" /\ pc = "returned"

\* C21: in every set of passphrases returned by askForPassphrases, the second
\* secret is present only if the wallet of the account derived from the first
\* secret declares a secondary public key.
C21_SecondOnlyWithSecondPublicKey ==
    (PassphrasesReturned /\ passphrases.second # 0) => wallet = "secondPublicKey"

-----------------------------------------------------------------------------
(* Property of BaseCommand.run, checked under Spec *)

\* the run ended on a failure: a parse error, a network setup error or an
\* error thrown by do()
RunFailed == pc = "exited" /\ exit.error # "none"

\* C22: every failure of a command run (parse error, network setup error,
\* error thrown by do) prints exactly one error line, through one call of
\* stop(), and ends with a non-zero status; a help request ends with status
\* zero without do() being invoked.
C22_ExitContract ==
    /\ RunFailed => (Len(exit.stop) = 1 /\ exit.code > 0)
    /\ (pc = "exited" /\ exit.by = "help") => (exit.code = 0 /\ trace = <<>>)

\* the second passphrase was asked for at the prompt
SecondPrompted == Occurs("getSecondPassphraseFromUser")

\* C23: askForPassphrases queries the ledger for the wallet only when
\* checkSecondPassphrase is true and no second passphrase was supplied by
\* flag; it prompts for the second passphrase exactly when the wallet it got
\* declares a secondary public key; a wallet that is not found counts as not
\* requiring a second passphrase (the call goes on, without a prompt), while
\* any other lookup error makes the call fail with that error.
C23_WalletQueriedOnlyWhenNeeded ==
    /\ Occurs("getWallet") =>
          /\ checkSecondPassphrase
          /\ flags.secondPassphrase = 0
          /\ Cardinality(Positions("getWallet")) = 1
    /\ SecondPrompted => (Occurs("getWallet") /\ wallet = "secondPublicKey")
    /\ (Occurs("getWallet") /\ wallet = "secondPublicKey") =>
          \/ pc = "askForPassphrases.getSecondPassphraseFromUser"
          \/ SecondPrompted
    /\ (Occurs("getWallet") /\ wallet \in {"noSecondPublicKey", "HttpNotFoundError"}) =>
          /\ pc \in {"askForPassphrases.checkSecondPassphrase", "returned"}
          /\ passphrases.second = 0
    /\ (Occurs("getWallet") /\ wallet = "error") =>
          (pc = "thrown" /\ exit.error = "NetworkError")
    /\ (PassphrasesReturned /\ checkSecondPassphrase /\ flags.secondPassphrase = 0) =>
          Occurs("getWallet")

C23_Witness ==
    /\ PassphrasesReturned
    /\ trace = <<"getWallet", "getSecondPassphraseFromUser", "passphrases">>
    /\ wallet = "secondPublicKey"
    /\ passphrases = [first |-> 12, second |-> 12]

\* the first passphrase has been collected and does not split into 12 pieces
FirstPassphraseMalformed ==
    /\ cmd = "askForPassphrases"
    /\ pc # "askForPassphrases"
    /\ passphrases.first # 12

\* C24: in askForPassphrases the first passphrase, supplied by flag or entered
\* at the prompt, is validated before any ledger query: a first passphrase
\* that does not split into exactly 12 pieces on single spaces fails with the
\* format error, and neither a wallet lookup nor a prompt for the second
\* passphrase occurs.
C24_FirstPassphraseValidatedBeforeLookup ==
    FirstPassphraseMalformed =>
        /\ ~Occurs("getWallet")
        /\ ~SecondPrompted
        /\ pc \in {"askForPassphrases.checkPassphraseFormat", "thrown"}
        /\ pc = "thrown" => exit.error = "PassphraseFormat"

C24_Witness ==
    /\ FirstPassphraseMalformed
    /\ pc = "thrown"
    /\ exit.error = "PassphraseFormat"
    /\ flags.passphrase = 0
    /\ flags.secondPassphrase = 0
    /\ checkSecondPassphrase
    /\ wallet = "secondPublicKey"
    /\ trace = <<"getPassphraseFromUser">>

-----------------------------------------------------------------------------
(* Frame property of waitTransactionConfirmations, checked under WaitSpec *)

\* every getTransaction call made so far was given the transaction id of the
\* call and the timeout blockTime * 1000 ms, and the call did nothing but
\* these queries: no other event separates two attempts
C25_SameQueryArguments ==
    /\ \A i \in 1..Len(queries) :
          /\ queries[i].transactionId = wait.transactionId
          /\ queries[i].timeout = wait.blockTime * 1000
    /\ trace = [i \in 1..Len(queries) |-> "getTransaction"]

\* a step changes nothing of the frame but the remaining retry count
C25_FrameStep ==
    /\ wait'.transactionId = wait.transactionId
    /\ wait'.blockTime = wait.blockTime
    /\ wait'.expectedConfirmations = wait.expectedConfirmations
    /\ wait'.maxRetries = wait.maxRetries

\* C25: across all retries of one waitTransactionConfirmations call, every
\* getTransaction query uses the same transaction id and the same timeout
\* blockTime * 1000 ms, and targetConfirmations is unchanged; only the
\* remaining retry count changes, and no sleep separates two attempts.
C25_RetriesKeepArguments ==
    /\ []C25_SameQueryArguments
    /\ [][C25_FrameStep]_vars

C25_Witness ==
    /\ pc = "returned"
    /\ wait.transactionId = "tx2"
    /\ wait.blockTime = 2
    /\ wait.maxRetries = 3
    /\ wait.numberOfRetry = 1
    /\ Len(queries) = 3
    /\ \A i \in 1..3 : queries[i].timeout = 2000 /\ queries[i].transactionId = "tx2"

-----------------------------------------------------------------------------
(* Propagation of errors below BaseCommand.run, checked under BelowRunSpec *)

\* the call ended by throwing the given error to its caller
ThrownToCaller(error) == pc = "thrown" /\ exit.error = error /\ exit.by = "throw"

\* getWallet rejected, inside applyWalletPredicate
WalletLookupRejected ==
    /\ cmd = "askForPassphrases"
    /\ Occurs("getWallet")
    /\ wallet \in {"HttpNotFoundError", "error"}

\* an error raised in targetResolve, in the nonce resolver, in a callback of
\* withAction or by a validation of askForPassphrases reaches the caller as it
\* was raised
OtherErrorsReachCaller ==
    /\ (cmd \in {"targetResolve", "withAction"} /\ lookup.rejected) =>
          ThrownToCaller(CASE lookup.lookup = "getUnikById" -> "NetworkError"
                           [] lookup.lookup = "resolveUnikName" -> "ResolutionError"
                           [] OTHER -> lookup.error)
    /\ (cmd = "targetResolve" /\ lookup.defined /\ lookup.error # "undefined") =>
          ThrownToCaller(lookup.error)
    /\ (cmd = "withAction" /\ lookup.rejected /\ flags.verbose) =>
          Last(trace) = "actionStop"
    /\ (cmd = "getNextWalletNonceFromPassphrase" /\ Occurs("getNonce")
          /\ ledgerNonce = NoLedgerNonce) => ThrownToCaller("NetworkError")
    /\ (cmd = "askForPassphrases" /\ pc \notin {"askForPassphrases",
                                              "askForPassphrases.checkPassphraseFormat"}
          /\ passphrases.first # PassphraseWords) => ThrownToCaller("PassphraseFormat")

\* C26 as stated: no component below BaseCommand.run catches and suppresses
\* an error; every error raised by a ledger query or a validation inside
\* targetResolve, askForPassphrases, hasSecondPassphrase/applyWalletPredicate,
\* withAction or the nonce resolver reaches the caller unchanged.
C26_NoErrorSuppressed ==
    /\ WalletLookupRejected => ThrownToCaller(WalletError(wallet))
    /\ OtherErrorsReachCaller

\* C26, amended: the one error suppressed below BaseCommand.run is the
\* HttpNotFoundError of getWallet, which applyWalletPredicate turns into the
\* result false (the call goes on without a second passphrase); every other
\* error raised by a ledger query or a validation inside targetResolve,
\* askForPassphrases, hasSecondPassphrase/applyWalletPredicate, withAction or
\* the nonce resolver reaches the caller unchanged.
C26_OnlyNotFoundSuppressed ==
    /\ (WalletLookupRejected /\ wallet = "error") => ThrownToCaller("NetworkError")
    /\ (WalletLookupRejected /\ wallet = "HttpNotFoundError") =>
          (pc # "thrown" /\ exit = Running /\ ~SecondPrompted)
    /\ OtherErrorsReachCaller

C26_Witness ==
    /\ WalletLookupRejected
    /\ wallet = "HttpNotFoundError"
    /\ PassphrasesReturned
    /\ passphrases = [first |-> 12, second |-> 0]

-----------------------------------------------------------------------------
(* Property of the heights read by setupNetwork, checked under HeightsSpec *)

\* setupNetwork has made its two parallel reads and their heights disagree
HeightsDisagree ==
    /\ Occurs("getConfigurationForCrypto")
    /\ Occurs("getCurrentHeight")
    /\ ~checkDataConsistency(heights)

\* C27: when independently fetched chain heights disagree the operation fails
\* with the consistency error instead of proceeding: checkDataConsistency
\* throws exactly when some supplied height differs from the first one, and a
\* command never goes on to compose or submit a transaction on the basis of
\* heights that disagree.
C27_DisagreeingHeightsStopTheRun ==
    /\ checkDataConsistency(heights) <=> (heights[2] = heights[1])
    /\ HeightsDisagree =>
          /\ ~Occurs("compose")
          /\ ~Occurs("sendTransaction")

-----------------------------------------------------------------------------
(* Property of badges:claim, checked under Spec *)

\* BadgesClaimCommand.getProperties was given a badge that is not a known one
UnknownBadge == cmd = "badges:claim" /\ Occurs("getProperties.rejected")

\* C28: badges:claim with a badge name that is not a known badge fails with
\* the 'Unknown badge' error before any passphrase is collected, any nonce is
\* queried, or any transaction is composed or submitted.
C28_UnknownBadgeStopsDo ==
    UnknownBadge =>
        /\ pc = "exited"
        /\ exit.error = "UnknownBadge"
        /\ exit.by = "run.catch"
        /\ passphrases = NoPassphrases
        /\ ~Occurs("getPassphraseFromUser")
        /\ ~Occurs("getNonce")
        /\ ~Occurs("compose")
        /\ ~Occurs("sendTransaction")

-----------------------------------------------------------------------------
(* Property of the delegate vote command, checked under Spec *)

\* the steps of do() that follow the resolution of the delegate
StepsAfterDelegateResolution ==
    {"getPassphraseFromUser", "getSecondPassphraseFromUser", "passphrases",
     "getNonce", "compose", "sendTransaction", "getTransaction"}

\* the resolution of the delegate has failed: a raw identifier of the wrong
\* format, or a wallet that is not found or is not registered as a delegate
DelegateResolutionFailed ==
    /\ cmd = "delegate:vote"
    /\ \/ /\ pc \notin {"run.parse", "run.setupNetwork", "Vote.do"}
          /\ exit.by \notin {"help", "run.parse", "uncaught"}
          /\ ~flags.id.at
          /\ flags.id.length # UnikIdLength
       \/ /\ lookup.lookup = "getWallet"
          /\ ~(lookup.defined /\ lookup.isDelegate)

\* C29: the delegate vote command resolves and checks the delegate before
\* anything else: if the target has the wrong format, its wallet is not found,
\* or its wallet is not registered as a delegate, the command fails without
\* collecting a passphrase, querying a nonce, or composing or submitting a vote
\* transaction; a raw identifier is looked up with getUnikById only and an
\* '@'-prefixed target with getUniknameWalletAddress only.
C29_DelegateResolvedFirst ==
    cmd = "delegate:vote" =>
        /\ DelegateResolutionFailed =>
              /\ pc = "exited"
              /\ exit.by = "run.catch"
              /\ exit.error \in {"UnikidFormat", "DelegateNotFound", "NotDelegate",
                                 "NetworkError"}
              /\ passphrases = NoPassphrases
              /\ \A event \in StepsAfterDelegateResolution : ~Occurs(event)
        /\ (\E event \in StepsAfterDelegateResolution : Occurs(event)) =>
              (lookup.lookup = "getWallet" /\ lookup.defined /\ lookup.isDelegate)
        /\ Occurs("getUnikById") => (~flags.id.at /\ ~Occurs("getUniknameWalletAddress"))
        /\ Occurs("getUniknameWalletAddress") => (flags.id.at /\ ~Occurs("getUnikById"))

C29_Witness ==
    /\ cmd = "delegate:vote"
    /\ DelegateResolutionFailed
    /\ flags.id.at
    /\ flags.passphrase = 12
    /\ exit.error = "NotDelegate"
    /\ trace = <<"getConfigurationForCrypto", "getCurrentHeight",
                 "getUniknameWalletAddress", "getWallet">>

=============================================================================
